---- MODULE Spec2Model ----
(***************************************************************************)
(* A model of webhook_receiver.py: the Flask application that              *)
(* authenticates POST /webhook requests against token.txt and              *)
(* credentials.txt, stores the accepted JSON payloads in the messages      *)
(* table of messages.db and serves the most recent ones on GET /messages.  *)
(*                                                                         *)
(* Text is a sequence of one-character strings, bytes are the integers     *)
(* 0..255.  A file is a sequence of lines (each line without its newline)  *)
(* or the value Missing.                                                   *)
(***************************************************************************)
EXTENDS Integers, Sequences, FiniteSets, TLC

(***************************************************************************)
(* Text primitives (the str methods the handlers use).                     *)
(***************************************************************************)

\* The printable ASCII characters, code points 32..126, in order (the grave
\* accent, code point 96, is written as an escape).
Ascii ==
  << " ", "!", "\"", "#", "$", "%", "&", "'", "(", ")", "*", "+", ",", "-", ".", "/",
     "0", "1", "2", "3", "4", "5", "6", "7", "8", "9", ":", ";", "<", "=", ">", "?",
     "@", "A", "B", "C", "D", "E", "F", "G", "H", "I", "J", "K", "L", "M", "N", "O",
     "P", "Q", "R", "S", "T", "U", "V", "W", "X", "Y", "Z", "[", "\\", "]", "^", "_",
     "\\u96", "a", "b", "c", "d", "e", "f", "g", "h", "i", "j", "k", "l", "m", "n", "o",
     "p", "q", "r", "s", "t", "u", "v", "w", "x", "y", "z", "{", "|", "}", "~" >>

\* The character of a code point: printable ASCII as itself, any other code
\* point as a distinct escape.
Chr(n) ==
  IF n > 31 /\ n <= 31 + Len(Ascii)
    THEN Ascii[n - 31]
    ELSE "\\u" \o ToString(n)

AsciiChars == {Ascii[i] : i \in 1..Len(Ascii)}

IsPrintable(c) == c \in AsciiChars

\* The code points of the printable ASCII characters.
CodePoint == [c \in AsciiChars |-> 31 + (CHOOSE i \in 1..Len(Ascii) : Ascii[i] = c)]

\* The code point of a printable ASCII character.
Ord(c) == CodePoint[c]

\* str.isspace for one character: the whitespace str.strip() removes.
Whitespace == {" ", "\t", "\n", "\r"}

\* str.lower for one character (ASCII letters; every other character is kept).
LowerChar(c) ==
  IF IsPrintable(c) /\ Ord(c) >= 65 /\ Ord(c) <= 90 THEN Chr(Ord(c) + 32) ELSE c

\* str.lower
Lower(s) == [i \in 1..Len(s) |-> LowerChar(s[i])]

\* str.startswith
StartsWith(s, p) == Len(s) >= Len(p) /\ SubSeq(s, 1, Len(p)) = p

\* The operator `in` on two strings: p occurs in s as a substring.
Contains(s, p) ==
  \E i \in 1..(Len(s) - Len(p) + 1) : SubSeq(s, i, i + Len(p) - 1) = p

\* The index of the first occurrence of character c in s, 0 when there is none.
FirstIndex(s, c) ==
  IF \E i \in 1..Len(s) : s[i] = c
    THEN CHOOSE i \in 1..Len(s) : s[i] = c /\ \A j \in 1..(i - 1) : s[j] # c
    ELSE 0

\* str.split(c): all the pieces between occurrences of the character c.
RECURSIVE Split(_, _)
Split(s, c) ==
  LET i == FirstIndex(s, c) IN
  IF i = 0 THEN << s >>
  ELSE << SubSeq(s, 1, i - 1) >> \o Split(SubSeq(s, i + 1, Len(s)), c)

\* str.split(c, 1): one piece when c does not occur, else the text before the
\* first c and the text after it.
SplitFirst(s, c) ==
  LET i == FirstIndex(s, c) IN
  IF i = 0 THEN << s >>
  ELSE << SubSeq(s, 1, i - 1), SubSeq(s, i + 1, Len(s)) >>

\* str.strip(): without the leading and the trailing whitespace.
RECURSIVE LStrip(_)
LStrip(s) == IF s # << >> /\ Head(s) \in Whitespace THEN LStrip(Tail(s)) ELSE s

RECURSIVE RStrip(_)
RStrip(s) ==
  IF s # << >> /\ s[Len(s)] \in Whitespace THEN RStrip(SubSeq(s, 1, Len(s) - 1)) ELSE s

Strip(s) == RStrip(LStrip(s))

(***************************************************************************)
(* base64 and UTF-8 (base64.b64decode, bytes.decode).                      *)
(***************************************************************************)

\* The result of a call that may raise: a value, or the exception.
Ok(v) == [ok |-> TRUE, val |-> v]
Raised(e) == [ok |-> FALSE, val |-> e]

\* The base64 alphabet: A-Z, a-z, 0-9, + and /, at the indexes 1..64.
B64Table ==
  SubSeq(Ascii, 34, 59) \o SubSeq(Ascii, 66, 91) \o SubSeq(Ascii, 17, 26) \o << "+", "/" >>

B64Chars == {B64Table[i] : i \in 1..Len(B64Table)}

IsB64Char(c) == c \in B64Chars

\* The six-bit values of the characters of the alphabet.
B64Index == [c \in B64Chars |-> (CHOOSE i \in 1..Len(B64Table) : B64Table[i] = c) - 1]

B64Value(c) == B64Index[c]

\* binascii.a2b_base64 in its default, non-strict mode, one character at a
\* time: characters outside the alphabet are skipped, a complete pad sequence
\* ends the input, and data left in an incomplete quad is an error.
\*   quad: the position in the current group of four characters
\*   left: the bits of the group not yet written
\*   pads: the "=" seen since the last data character
RECURSIVE A2bLoop(_, _, _, _, _, _)
A2bLoop(s, i, quad, left, pads, out) ==
  IF i > Len(s)
    THEN IF quad = 0 THEN Ok(out) ELSE Raised("binascii.Error")
  ELSE IF s[i] = "="
    THEN IF quad >= 2 /\ quad + pads + 1 >= 4
           THEN Ok(out)
           ELSE A2bLoop(s, i + 1, quad, left, IF quad >= 2 THEN pads + 1 ELSE pads, out)
  ELSE IF ~IsB64Char(s[i])
    THEN A2bLoop(s, i + 1, quad, left, pads, out)
  ELSE
    LET v == B64Value(s[i]) IN
    CASE quad = 0 -> A2bLoop(s, i + 1, 1, v, 0, out)
      [] quad = 1 ->
           A2bLoop(s, i + 1, 2, v % 16, 0, Append(out, left * 4 + (v \div 16)))
      [] quad = 2 ->
           A2bLoop(s, i + 1, 3, v % 4, 0, Append(out, left * 16 + (v \div 4)))
      [] quad = 3 ->
           A2bLoop(s, i + 1, 0, 0, 0, Append(out, left * 64 + v))

\* base64.b64decode(s) for a str argument: a ValueError when s holds a
\* character outside ASCII, else a2b_base64.
B64Decode(s) ==
  IF \E i \in 1..Len(s) : ~IsPrintable(s[i]) /\ s[i] \notin Whitespace
    THEN Raised("ValueError")
    ELSE A2bLoop(s, 1, 0, 0, 0, << >>)

IsCont(b) == b >= 128 /\ b <= 191

\* bytes.decode("utf-8"): the text of a byte sequence, or UnicodeDecodeError
\* at the first byte that does not start a well-formed sequence.
RECURSIVE Utf8Decode(_)
Utf8Decode(b) ==
  IF b = << >> THEN Ok(<< >>)
  ELSE
    LET b1 == b[1]
        n  == Len(b)
        rest(k, cp) ==
          LET r == Utf8Decode(SubSeq(b, k + 1, n)) IN
          IF r.ok THEN Ok(<< Chr(cp) >> \o r.val) ELSE r
    IN
    IF b1 < 128 THEN rest(1, b1)
    ELSE IF b1 >= 194 /\ b1 <= 223 /\ n >= 2 /\ IsCont(b[2])
      THEN rest(2, (b1 % 32) * 64 + (b[2] % 64))
    ELSE IF b1 >= 224 /\ b1 <= 239 /\ n >= 3 /\ IsCont(b[2]) /\ IsCont(b[3])
            /\ (b1 = 224 => b[2] >= 160) /\ (b1 = 237 => b[2] <= 159)
      THEN rest(3, (b1 % 16) * 4096 + (b[2] % 64) * 64 + (b[3] % 64))
    ELSE IF b1 >= 240 /\ b1 <= 244 /\ n >= 4 /\ IsCont(b[2]) /\ IsCont(b[3]) /\ IsCont(b[4])
            /\ (b1 = 240 => b[2] >= 144) /\ (b1 = 244 => b[2] <= 143)
      THEN rest(4, (b1 % 8) * 262144 + (b[2] % 64) * 4096 + (b[3] % 64) * 64 + (b[4] % 64))
    ELSE Raised("UnicodeDecodeError")

\* What a client sends (the docstring's `echo -n 'admin:admin123' | base64`):
\* the bytes of an ASCII text, and their base64 encoding with padding.
Encode(s) == [i \in 1..Len(s) |-> Ord(s[i])]

RECURSIVE B64Encode(_)
B64Encode(b) ==
  LET e(v) == B64Table[v + 1] IN
  CASE Len(b) = 0 -> << >>
    [] Len(b) = 1 -> << e(b[1] \div 4), e((b[1] % 4) * 16), "=", "=" >>
    [] Len(b) = 2 ->
         << e(b[1] \div 4), e((b[1] % 4) * 16 + (b[2] \div 16)), e((b[2] % 16) * 4), "=" >>
    [] OTHER ->
         << e(b[1] \div 4), e((b[1] % 4) * 16 + (b[2] \div 16)),
            e((b[2] % 16) * 4 + (b[3] \div 64)), e(b[3] % 64) >>
         \o B64Encode(SubSeq(b, 4, Len(b)))

(***************************************************************************)
(* JSON (request.get_json -> json.loads, json.dumps).  The texts of the    *)
(* model hold no escapes, no fractions and no negative numbers.            *)
(* A value is a record [t, v]: t is its type, v its Python value (a        *)
(* dict is the sequence of its <<key, value>> items in insertion order).   *)
(***************************************************************************)

JNull == [t |-> "null", v |-> 0]
JBool(b) == [t |-> "bool", v |-> b]
JNum(n) == [t |-> "num", v |-> n]
JStr(x) == [t |-> "str", v |-> x]
JArr(xs) == [t |-> "arr", v |-> xs]
JObj(items) == [t |-> "obj", v |-> items]

Digits == << "0", "1", "2", "3", "4", "5", "6", "7", "8", "9" >>

IsDigit(c) == \E i \in 1..Len(Digits) : Digits[i] = c

DigitValue(c) == (CHOOSE i \in 1..Len(Digits) : Digits[i] = c) - 1

\* The result of parsing one value: the value and the index after it.
Parsed(v, next) == [ok |-> TRUE, val |-> v, next |-> next]
NotParsed == [ok |-> FALSE, val |-> JNull, next |-> 0]

\* The index of the first character at or after i that is no whitespace.
RECURSIVE SkipWs(_, _)
SkipWs(s, i) == IF i <= Len(s) /\ s[i] \in Whitespace THEN SkipWs(s, i + 1) ELSE i

\* The index after the last digit of the run of digits that starts at i.
RECURSIVE DigitsEnd(_, _)
DigitsEnd(s, i) == IF i <= Len(s) /\ IsDigit(s[i]) THEN DigitsEnd(s, i + 1) ELSE i

RECURSIVE Number(_)
Number(ds) ==
  IF ds = << >> THEN 0 ELSE Number(SubSeq(ds, 1, Len(ds) - 1)) * 10 + DigitValue(ds[Len(ds)])

\* dict[k] = v on the items of a dict: a known key keeps its place.
SetItem(items, k, v) ==
  IF \E i \in 1..Len(items) : items[i][1] = k
    THEN [i \in 1..Len(items) |-> IF items[i][1] = k THEN << k, v >> ELSE items[i]]
    ELSE Append(items, << k, v >>)

\* json.loads, by recursive descent.
RECURSIVE ParseValue(_, _), ParseElements(_, _, _), ParseMembers(_, _, _)
ParseValue(s, i) ==
  LET j == SkipWs(s, i)
      word(w, v) ==
        IF j + Len(w) - 1 <= Len(s) /\ SubSeq(s, j, j + Len(w) - 1) = w THEN Parsed(v, j + Len(w)) ELSE NotParsed
  IN
  IF j > Len(s) THEN NotParsed
  ELSE IF s[j] = "n" THEN word(<< "n", "u", "l", "l" >>, JNull)
  ELSE IF s[j] = "t" THEN word(<< "t", "r", "u", "e" >>, JBool(TRUE))
  ELSE IF s[j] = "f" THEN word(<< "f", "a", "l", "s", "e" >>, JBool(FALSE))
  ELSE IF s[j] = "0" THEN Parsed(JNum(0), j + 1)
  ELSE IF IsDigit(s[j])
    THEN LET k == DigitsEnd(s, j) IN Parsed(JNum(Number(SubSeq(s, j, k - 1))), k)
  ELSE IF s[j] = "\""
    THEN LET k == FirstIndex(SubSeq(s, j + 1, Len(s)), "\"") IN
         IF k = 0 THEN NotParsed ELSE Parsed(JStr(SubSeq(s, j + 1, j + k - 1)), j + k + 1)
  ELSE IF s[j] = "["
    THEN LET k == SkipWs(s, j + 1) IN
         IF k <= Len(s) /\ s[k] = "]" THEN Parsed(JArr(<< >>), k + 1)
         ELSE ParseElements(s, k, << >>)
  ELSE IF s[j] = "{"
    THEN LET k == SkipWs(s, j + 1) IN
         IF k <= Len(s) /\ s[k] = "}" THEN Parsed(JObj(<< >>), k + 1)
         ELSE ParseMembers(s, k, << >>)
  ELSE NotParsed

\* The elements of an array from index i on, up to its "]".
ParseElements(s, i, acc) ==
  LET e == ParseValue(s, i) IN
  IF ~e.ok THEN NotParsed
  ELSE
    LET k == SkipWs(s, e.next) IN
    IF k > Len(s) THEN NotParsed
    ELSE IF s[k] = "]" THEN Parsed(JArr(Append(acc, e.val)), k + 1)
    ELSE IF s[k] = "," THEN ParseElements(s, k + 1, Append(acc, e.val))
    ELSE NotParsed

\* The members of an object from index i on, up to its "}".
ParseMembers(s, i, acc) ==
  LET j == SkipWs(s, i)
      key == IF j <= Len(s) /\ s[j] = "\"" THEN ParseValue(s, j) ELSE NotParsed
  IN
  IF ~key.ok THEN NotParsed
  ELSE
    LET c == SkipWs(s, key.next) IN
    IF c > Len(s) \/ s[c] # ":" THEN NotParsed
    ELSE
      LET e == ParseValue(s, c + 1) IN
      IF ~e.ok THEN NotParsed
      ELSE
        LET k == SkipWs(s, e.next)
            items == SetItem(acc, key.val.v, e.val)
        IN
        IF k > Len(s) THEN NotParsed
        ELSE IF s[k] = "}" THEN Parsed(JObj(items), k + 1)
        ELSE IF s[k] = "," THEN ParseMembers(s, k + 1, items)
        ELSE NotParsed

\* json.loads(s): the value of the whole text, or a JSONDecodeError.
JsonLoads(s) ==
  LET r == ParseValue(s, 1) IN
  IF r.ok /\ SkipWs(s, r.next) > Len(s) THEN Ok(r.val) ELSE Raised("JSONDecodeError")

RECURSIVE NumberText(_)
NumberText(n) ==
  IF n < 10 THEN << Digits[n + 1] >> ELSE NumberText(n \div 10) \o << Digits[(n % 10) + 1] >>

\* json.dumps(v) with the default separators ", " and ": ".
RECURSIVE JsonDumps(_), DumpsJoin(_)
JsonDumps(x) ==
  CASE x.t = "null" -> << "n", "u", "l", "l" >>
    [] x.t = "bool" ->
         IF x.v THEN << "t", "r", "u", "e" >> ELSE << "f", "a", "l", "s", "e" >>
    [] x.t = "num" -> NumberText(x.v)
    [] x.t = "str" -> << "\"" >> \o x.v \o << "\"" >>
    [] x.t = "arr" ->
         << "[" >> \o DumpsJoin([i \in 1..Len(x.v) |-> JsonDumps(x.v[i])]) \o << "]" >>
    [] x.t = "obj" ->
         << "{" >>
         \o DumpsJoin([i \in 1..Len(x.v) |->
              << "\"" >> \o x.v[i][1] \o << "\"", ":", " " >> \o JsonDumps(x.v[i][2])])
         \o << "}" >>

\* ", ".join(texts)
DumpsJoin(texts) ==
  IF Len(texts) = 0 THEN << >>
  ELSE IF Len(texts) = 1 THEN texts[1]
  ELSE texts[1] \o << ",", " " >> \o DumpsJoin(Tail(texts))

\* bool(v): None, False, 0, "", [] and {} are false.
Truthy(x) ==
  CASE x.t = "null" -> FALSE
    [] x.t = "bool" -> x.v
    [] x.t = "num" -> x.v # 0
    [] OTHER -> Len(x.v) > 0

(***************************************************************************)
(* Credential store: token.txt and credentials.txt.                        *)
(***************************************************************************)

\* A file of the working directory: absent, or its lines.
Missing == [exists |-> FALSE, lines |-> << >>]
File(lines) == [exists |-> TRUE, lines |-> lines]

\* [line.strip() for line in file if line.strip()]
StrippedLines(lines) ==
  LET kept == SelectSeq(lines, LAMBDA l : Strip(l) # << >>) IN
  [i \in 1..Len(kept) |-> Strip(kept[i])]

\* load_tokens without the filter of line 58: a blank line is the token "".
load_tokens_KeepBlank(file) ==
  IF ~file.exists THEN Raised("SystemExit")
  ELSE Ok([i \in 1..Len(file.lines) |-> Strip(file.lines[i])])

\* load_tokens(): the list of tokens; exit(1) raises SystemExit when the
\* file is not found.
load_tokens(file) ==
  IF ~file.exists THEN Raised("SystemExit") ELSE Ok(StrippedLines(file.lines))

\* A loop that keeps the first password of a username.
RECURSIVE CredentialsLoop_KeepFirst(_, _)
CredentialsLoop_KeepFirst(lines, credentials) ==
  IF lines = << >> THEN Ok(credentials)
  ELSE
    LET parts == SplitFirst(Head(lines), ":") IN
    IF Len(parts) # 2 THEN Raised("ValueError")
    ELSE
      CredentialsLoop_KeepFirst(
        Tail(lines),
        [u \in DOMAIN credentials \cup {parts[1]} |->
           IF u \in DOMAIN credentials THEN credentials[u] ELSE parts[2]])

\* The loop of load_credentials over the stripped non-empty lines:
\* credentials[username] = password for each, in order; unpacking a line
\* without ":" into two names raises ValueError.
RECURSIVE CredentialsLoop(_, _)
CredentialsLoop(lines, credentials) ==
  IF lines = << >> THEN Ok(credentials)
  ELSE
    LET parts == SplitFirst(Head(lines), ":") IN
    IF Len(parts) # 2 THEN Raised("ValueError")
    ELSE
      LET username == parts[1]
          password == parts[2]
      IN CredentialsLoop(
           Tail(lines),
           [u \in DOMAIN credentials \cup {username} |->
              IF u = username THEN password ELSE credentials[u]])

\* load_credentials(): the dict {username: password}, a function on the set
\* of usernames.
load_credentials(file) ==
  IF ~file.exists THEN Raised("SystemExit")
  ELSE CredentialsLoop(StrippedLines(file.lines), [u \in {} |-> << >>])

(***************************************************************************)
(* Authenticator.  A header is absent or a text.                           *)
(***************************************************************************)

NoHeader == [present |-> FALSE, val |-> << >>]
Header(text) == [present |-> TRUE, val |-> text]

BearerPrefix == << "B", "e", "a", "r", "e", "r", " " >>
BasicPrefix == << "B", "a", "s", "i", "c", " " >>

\* An authenticator that takes all the text after "Bearer " for the token.
authenticate_bearer_Remainder(auth_header, tokenFile) ==
  IF ~auth_header.present \/ auth_header.val = << >> THEN Ok(FALSE)
  ELSE IF ~StartsWith(auth_header.val, BearerPrefix) THEN Ok(FALSE)
  ELSE
    LET token == SubSeq(auth_header.val, Len(BearerPrefix) + 1, Len(auth_header.val))
        tokens == load_tokens(tokenFile)
    IN
    IF ~tokens.ok THEN tokens
    ELSE Ok(\E i \in 1..Len(tokens.val) : tokens.val[i] = token)

\* authenticate_bearer(_request): True, False, or the SystemExit of
\* load_tokens.
authenticate_bearer(auth_header, tokenFile) ==
  IF ~auth_header.present \/ auth_header.val = << >> THEN Ok(FALSE)
  ELSE IF ~StartsWith(auth_header.val, BearerPrefix) THEN Ok(FALSE)
  ELSE
    LET token == Split(auth_header.val, " ")[2]
        tokens == load_tokens(tokenFile)
    IN
    IF ~tokens.ok THEN tokens
    ELSE Ok(\E i \in 1..Len(tokens.val) : tokens.val[i] = token)

\* authenticate_basic without the except clause of line 122: what b64decode,
\* decode and the unpacking raise goes to the caller.
authenticate_basic_Uncaught(auth_header, credFile) ==
  IF ~auth_header.present \/ auth_header.val = << >> THEN Ok(FALSE)
  ELSE IF ~StartsWith(auth_header.val, BasicPrefix) THEN Ok(FALSE)
  ELSE
    LET bytes == B64Decode(Split(auth_header.val, " ")[2])
        decoded_credentials == IF bytes.ok THEN Utf8Decode(bytes.val) ELSE bytes
    IN
    IF ~decoded_credentials.ok THEN decoded_credentials
    ELSE IF Len(SplitFirst(decoded_credentials.val, ":")) # 2 THEN Raised("ValueError")
    ELSE
      LET parts == SplitFirst(decoded_credentials.val, ":")
          credentials == load_credentials(credFile)
      IN
      IF ~credentials.ok THEN credentials
      ELSE Ok(parts[1] \in DOMAIN credentials.val
              /\ credentials.val[parts[1]] = parts[2])

\* authenticate_basic(_request): True, False, or what load_credentials
\* raises (it is called outside the try block).
authenticate_basic(auth_header, credFile) ==
  IF ~auth_header.present \/ auth_header.val = << >> THEN Ok(FALSE)
  ELSE IF ~StartsWith(auth_header.val, BasicPrefix) THEN Ok(FALSE)
  ELSE
    LET encoded_credentials == Split(auth_header.val, " ")[2]
        bytes == B64Decode(encoded_credentials)
        decoded_credentials == IF bytes.ok THEN Utf8Decode(bytes.val) ELSE bytes
        parts ==
          IF decoded_credentials.ok
            THEN SplitFirst(decoded_credentials.val, ":") ELSE << >>
    IN
    IF ~decoded_credentials.ok \/ Len(parts) # 2 THEN Ok(FALSE)
    ELSE
      LET username == parts[1]
          password == parts[2]
          credentials == load_credentials(credFile)
      IN
      IF ~credentials.ok THEN credentials
      ELSE Ok(username \in DOMAIN credentials.val
              /\ credentials.val[username] = password)

\* An authenticator that decides on the sources as they were when the
\* server started, read once.
Authenticate_AtStartup(auth_header, tokenFile, credFile) ==
  LET tokens == File(<< << "a" >> >>)
      pairs == File(<< << "u", ":", "p" >> >>)
      bearer == authenticate_bearer(auth_header, tokens)
  IN
  IF bearer.val THEN Ok(TRUE) ELSE authenticate_basic(auth_header, pairs)

\* An authenticator that loads both sources before it looks at the header.
Authenticate_LoadBoth(auth_header, tokenFile, credFile) ==
  LET tokens == load_tokens(tokenFile)
      credentials == load_credentials(credFile)
      bearer == authenticate_bearer(auth_header, tokenFile)
  IN
  IF ~tokens.ok THEN tokens
  ELSE IF ~credentials.ok THEN credentials
  ELSE IF bearer.val THEN Ok(TRUE)
  ELSE authenticate_basic(auth_header, credFile)

\* authenticate_bearer(request) or authenticate_basic(request)
Authenticate(auth_header, tokenFile, credFile) ==
  LET bearer == authenticate_bearer(auth_header, tokenFile) IN
  IF ~bearer.ok THEN bearer
  ELSE IF bearer.val THEN Ok(TRUE)
  ELSE authenticate_basic(auth_header, credFile)

(***************************************************************************)
(* The server: the files, the messages table, the clock, the process and   *)
(* the requests in flight.                                                 *)
(***************************************************************************)

VARIABLES
  tokenFile,   \* token.txt
  credFile,    \* credentials.txt
  db,          \* the rows of the messages table of messages.db, by id
  now,         \* the UTC clock
  server,      \* "starting", "serving" or "exited"
  req,         \* the POST /webhook requests, by connection
  view,        \* the last response to GET /messages
  auth         \* a call of the authenticator alone: its header and its outcome

vars == << tokenFile, credFile, db, now, server, req, view, auth >>

\* Bounds of the model.
MaxReqs == 2
MaxClock == 1

\* LIMIT 100 of the query of get_messages.
LIMIT == 100

Reqs == 1..MaxReqs

\* The inputs of the model: tokens, credential lines, headers, bodies.
TokA == << "a" >>
PairUP == << "u", ":", "p" >>
PairUQ == << "u", ":", "q" >>

BasicHeader(pair) == Header(BasicPrefix \o B64Encode(Encode(pair)))
BearerHeader(token) == Header(BearerPrefix \o token)

TokenFiles == { Missing, File(<< >>), File(<< TokA >>) }
CredFiles ==
  { Missing, File(<< PairUP >>), File(<< PairUP, << "u" >> >>), File(<< PairUQ >>) }

Headers ==
  { NoHeader, BearerHeader(TokA), BasicHeader(PairUP),
    Header(<< "T", "o", "k", "e", "n", " ", "a" >>) }

BodyObject == << "{", "\"", "a", "\"", ":", "1", "}" >>
BodyFoo == << "\"", "F", "o", "o", "\"" >>
BodyNull == << "n", "u", "l", "l" >>
BodyEmptyObject == << "{", "}" >>
BodyBroken == << "{", "\"", "a", "\"", ":" >>

\* A request body with its Content-Type: application/json or another type.
Payloads ==
  ({ BodyObject, BodyFoo, BodyNull, BodyEmptyObject, BodyBroken } \X { TRUE })
  \cup { << BodyObject, FALSE >> }

Searches == { << >>, << "F", "O", "O" >> }

\* A response: the status and the JSON body's fields ("" for a field the
\* body does not have); kind "html" is Flask's own error page and kind
\* "none" a connection closed without a response.
NoResponse == [status |-> 0, kind |-> "none", error |-> "", message |-> ""]
JsonError(status, error) ==
  [status |-> status, kind |-> "json", error |-> error, message |-> ""]
Success == [status |-> 200, kind |-> "json", error |-> "", message |-> "Webhook received"]
FlaskError == [status |-> 500, kind |-> "html", error |-> "", message |-> ""]

Idle ==
  [pc |-> "idle", hdr |-> NoHeader, body |-> << >>, isJson |-> FALSE, data |-> JNull,
   timestamp |-> 0, rowid |-> 0, resp |-> NoResponse]

NoView == [status |-> 0, search |-> << >>, messages |-> << >>]

NoCall == [hdr |-> NoHeader, out |-> "none"]

\* The rows an earlier run of the server left in messages.db: n rows, the
\* first and the third holding "Foo".
PastRows(n) ==
  [i \in 1..n |->
     [id |-> i, timestamp |-> 0,
      data |-> IF i \in {1, 3} THEN JsonDumps(JStr(<< "F", "o", "o" >>))
               ELSE JsonDumps(JNum(1))]]

\* init_db(): the table is created if it does not exist, so the rows of an
\* earlier run are kept.
init_db == { << >>, PastRows(2) }

Init ==
  /\ tokenFile \in TokenFiles
  /\ credFile \in CredFiles
  /\ db \in init_db
  /\ now = 0
  /\ server = "starting"
  /\ req = [r \in Reqs |-> Idle]
  /\ view = NoView
  /\ auth = NoCall

(***************************************************************************)
(* The message store (sqlite3 on messages.db).                             *)
(***************************************************************************)

\* An id that repeats the largest id of the table.
NextId_NoIncrement(rows) == IF rows = << >> THEN 1 ELSE rows[Len(rows)].id

\* id INTEGER PRIMARY KEY AUTOINCREMENT: one more than the largest id the
\* table has held (no row is ever deleted).
NextId(rows) == IF rows = << >> THEN 1 ELSE rows[Len(rows)].id + 1

\* An INSERT OR REPLACE that reuses the id of the newest row.
InsertRow_Replace(rows, timestamp, data) ==
  IF rows = << >>
    THEN << [id |-> 1, timestamp |-> timestamp, data |-> data] >>
    ELSE [rows EXCEPT ![Len(rows)] =
            [id |-> rows[Len(rows)].id, timestamp |-> timestamp, data |-> data]]

\* INSERT INTO messages (timestamp, data) VALUES (?, ?), committed.
InsertRow(rows, timestamp, data) ==
  Append(rows, [id |-> NextId(rows), timestamp |-> timestamp, data |-> data])

Reverse(xs) == [i \in 1..Len(xs) |-> xs[Len(xs) + 1 - i]]

Min(a, b) == IF a <= b THEN a ELSE b

\* The query in ascending order of id: the LIMIT oldest rows.
SelectRecent_Oldest(rows) ==
  LET got == SubSeq(rows, 1, Min(Len(rows), LIMIT))
  IN [i \in 1..Len(got) |-> [timestamp |-> got[i].timestamp, data |-> got[i].data]]

\* SELECT timestamp, data FROM messages ORDER BY id DESC LIMIT 100, as the
\* list of {"timestamp", "data"} dicts (the rows are kept in id order).
SelectRecent(rows) ==
  LET desc == Reverse(rows)
      got == SubSeq(desc, 1, Min(Len(desc), LIMIT))
  IN [i \in 1..Len(got) |-> [timestamp |-> got[i].timestamp, data |-> got[i].data]]

\* get_messages without its last line: the list as the query gave it.
MessagesResponse_NewestFirst(rows, search) ==
  LET search_query == Lower(search)
      messages == SelectRecent(rows)
  IN IF search_query # << >>
       THEN SelectSeq(messages, LAMBDA msg : Contains(Lower(msg.data), search_query))
       ELSE messages

\* get_messages with the filter in the query, before the LIMIT.
MessagesResponse_FilterAll(rows, search) ==
  LET search_query == Lower(search)
      matching ==
        IF search_query # << >>
          THEN SelectSeq(rows, LAMBDA row : Contains(Lower(row.data), search_query))
          ELSE rows
  IN Reverse(SelectRecent(matching))

\* The body of get_messages: the search argument lowered, the query, the
\* filter when the query string is not empty, and the list reversed.
MessagesResponse(rows, search) ==
  LET search_query == Lower(search)
      messages == SelectRecent(rows)
      filtered ==
        IF search_query # << >>
          THEN SelectSeq(messages, LAMBDA msg : Contains(Lower(msg.data), search_query))
          ELSE messages
  IN Reverse(filtered)

(***************************************************************************)
(* The ingestion handler, webhook(), in the steps other requests can       *)
(* interleave with.                                                        *)
(***************************************************************************)

\* request.get_json(): the parsed value of a JSON body, BadRequest for a
\* body that is no JSON.  For another Content-Type Flask returns None or
\* raises UnsupportedMediaType, by its version.
get_json(body, isJson) ==
  IF isJson
    THEN LET r == JsonLoads(body) IN { IF r.ok THEN r ELSE Raised("BadRequest") }
    ELSE { Ok(JNull), Raised("UnsupportedMediaType") }

\* The request is answered and its connection closed: what remains of it is
\* the response, the header and the body if they were read and the request
\* went no further, and the id of the row it inserted.
Answered(q, resp) ==
  [Idle EXCEPT !.pc = "done", !.resp = resp, !.hdr = q.hdr, !.body = q.body,
               !.isJson = q.isJson, !.rowid = q.rowid]

\* A handler that goes on whatever the authenticator answers.
AfterAuthentication_Unchecked(q, out) ==
  IF out.ok THEN [q EXCEPT !.pc = "parse"]
  ELSE IF out.val = "SystemExit" THEN [Idle EXCEPT !.pc = "dropped"]
  ELSE Answered(q, FlaskError)

\* What follows the authentication of request q (lines 152-153, and Flask
\* around the view function): on to the body, 401, Flask's 500 page for an
\* exception that is no HTTP error, or no response for a SystemExit.
AfterAuthentication(q, out) ==
  IF out.ok /\ out.val THEN [q EXCEPT !.pc = "parse"]
  ELSE IF out.ok THEN Answered(q, JsonError(401, "Unauthorized"))
  ELSE IF out.val = "SystemExit" THEN [Idle EXCEPT !.pc = "dropped"]
  ELSE Answered(q, FlaskError)

\* What follows get_json (lines 157-163): 500 with the message of the
\* exception, 400 for a value that is false, else the timestamp is taken.
AfterGetJson(q, out, clock) ==
  IF ~out.ok THEN Answered(q, JsonError(500, out.val))
  ELSE IF ~Truthy(out.val)
    THEN Answered(q, JsonError(400, "Invalid JSON payload"))
  ELSE [q EXCEPT !.pc = "insert", !.data = out.val, !.timestamp = clock]

\* A client connects and sends the headers of a POST /webhook request; the
\* body is read from the connection when get_json() asks for it.  The
\* requests are numbered in the order they arrive.
Receive(r) ==
  /\ server = "serving"
  /\ req[r].pc = "idle"
  /\ \A q \in 1..(r - 1) : req[q].pc # "idle"
  /\ \E h \in Headers : req' = [req EXCEPT ![r] = [@ EXCEPT !.pc = "auth", !.hdr = h]]
  /\ UNCHANGED << tokenFile, credFile, db, now, server, view, auth >>

\* Lines 152-153.  A SystemExit leaves the request without a response; it
\* ends the process, or only the thread of the request, by the server that
\* runs the application.
AuthenticateStep(r) ==
  /\ server = "serving"
  /\ req[r].pc = "auth"
  /\ LET out == Authenticate(req[r].hdr, tokenFile, credFile) IN
       /\ req' = [req EXCEPT ![r] = AfterAuthentication(@, out)]
       /\ IF ~out.ok /\ out.val = "SystemExit"
            THEN server' \in {"serving", "exited"}
            ELSE server' = server
  /\ UNCHANGED << tokenFile, credFile, db, now, view, auth >>

\* Lines 155-163.  The header is not read again (but to be printed) and is
\* dropped.
ParseBody(r) ==
  /\ server = "serving"
  /\ req[r].pc = "parse"
  /\ \E p \in Payloads :
       \E out \in get_json(p[1], p[2]) :
         req' = [req EXCEPT ![r] =
                   AfterGetJson([@ EXCEPT !.hdr = NoHeader, !.body = p[1], !.isJson = p[2]],
                                out, now)]
  /\ UNCHANGED << tokenFile, credFile, db, now, server, view, auth >>

\* Lines 164-167: the row is inserted and committed.  What the request keeps
\* is the payload, which is printed next, and the id of its row.
Persist(r) ==
  /\ server = "serving"
  /\ req[r].pc = "insert"
  /\ db' = InsertRow(db, req[r].timestamp, JsonDumps(req[r].data))
  /\ req' = [req EXCEPT ![r] = [Idle EXCEPT !.pc = "log", !.data = req[r].data,
                                              !.rowid = NextId(db)]]
  /\ UNCHANGED << tokenFile, credFile, now, server, view, auth >>

\* A failure that leaves the row behind: no rollback.
PersistFails_NoRollback(r) ==
  /\ server = "serving"
  /\ req[r].pc = "insert"
  /\ db' = InsertRow(db, req[r].timestamp, JsonDumps(req[r].data))
  /\ req' = [req EXCEPT ![r] = Answered(@, JsonError(500, "OperationalError"))]
  /\ UNCHANGED << tokenFile, credFile, now, server, view, auth >>

\* Lines 164-167 and 180-182: sqlite3 raises (the database is locked, the
\* disk is full); the connection's context manager rolls back.
PersistFails(r) ==
  /\ server = "serving"
  /\ req[r].pc = "insert"
  /\ req' = [req EXCEPT ![r] = Answered(@, JsonError(500, "OperationalError"))]
  /\ UNCHANGED << tokenFile, credFile, db, now, server, view, auth >>

\* Lines 169-178: the headers and the payload are printed, then 200.
Respond(r) ==
  /\ server = "serving"
  /\ req[r].pc = "log"
  /\ req' = [req EXCEPT ![r] = Answered(@, Success)]
  /\ UNCHANGED << tokenFile, credFile, db, now, server, view, auth >>

\* Lines 169-175 and 180-182: print raises (standard output is closed).
LogFails(r) ==
  /\ server = "serving"
  /\ req[r].pc = "log"
  /\ req' = [req EXCEPT ![r] = Answered(@, JsonError(500, "OSError"))]
  /\ UNCHANGED << tokenFile, credFile, db, now, server, view, auth >>

(***************************************************************************)
(* GET /messages, the process and its environment.                         *)
(***************************************************************************)

\* get_messages(), lines 135-146.
GetMessages ==
  /\ server = "serving"
  /\ \E search \in Searches :
       view' = [status |-> 200, search |-> search,
                messages |-> MessagesResponse(db, search)]
  /\ UNCHANGED << tokenFile, credFile, db, now, server, req, auth >>

\* Lines 185-202: the arguments are parsed and app.run() serves.
Main ==
  /\ server = "starting"
  /\ server' = "serving"
  /\ UNCHANGED << tokenFile, credFile, db, now, req, view, auth >>

\* Time passes.
Tick ==
  /\ now < MaxClock
  /\ now' = now + 1
  /\ UNCHANGED << tokenFile, credFile, db, server, req, view, auth >>

\* An operator edits, removes or restores token.txt.
EditTokens ==
  /\ tokenFile' \in TokenFiles \ {tokenFile}
  /\ UNCHANGED << credFile, db, now, server, req, view, auth >>

\* An operator edits, removes or restores credentials.txt.
EditCredentials ==
  /\ credFile' \in CredFiles \ {credFile}
  /\ UNCHANGED << tokenFile, db, now, server, req, view, auth >>

\* The ingestion pipeline and its environment.  GET /messages is left to
\* SpecRead: it writes view alone, which no action of Next reads.
Next ==
  \/ \E r \in Reqs : Receive(r)
  \/ \E r \in Reqs : AuthenticateStep(r)
  \/ \E r \in Reqs : ParseBody(r)
  \/ \E r \in Reqs : Persist(r)
  \/ \E r \in Reqs : PersistFails(r)
  \/ \E r \in Reqs : Respond(r)
  \/ \E r \in Reqs : LogFails(r)
  \/ Main
  \/ Tick
  \/ EditTokens
  \/ EditCredentials

Spec == Init /\ [][Next]_vars

\* The server with its readers: the credential files are in place and are
\* not edited, and messages.db holds the rows of an earlier run.
InitRead ==
  /\ tokenFile = File(<< TokA >>)
  /\ credFile = File(<< PairUP >>)
  /\ db \in { << >>, PastRows(LIMIT - 1) }
  /\ now = 0
  /\ server = "starting"
  /\ req = [r \in Reqs |-> Idle]
  /\ view = NoView
  /\ auth = NoCall

NextRead ==
  \/ \E r \in Reqs : Receive(r)
  \/ \E r \in Reqs : AuthenticateStep(r)
  \/ \E r \in Reqs : ParseBody(r)
  \/ \E r \in Reqs : Persist(r)
  \/ \E r \in Reqs : PersistFails(r)
  \/ \E r \in Reqs : Respond(r)
  \/ \E r \in Reqs : LogFails(r)
  \/ GetMessages
  \/ Main
  \/ Tick

SpecRead == InitRead /\ [][NextRead]_vars

(***************************************************************************)
(* The authenticator alone, on wider inputs: one call of                   *)
(* authenticate_bearer(request) or authenticate_basic(request) for a       *)
(* header and the two files.                                               *)
(***************************************************************************)

\* Bounds of the inputs.
MaxLines == 2
MaxTokenLen == 3
MaxPairLen == 3

\* The sequences of at most n elements of S.
RECURSIVE SeqsUpTo(_, _)
SeqsUpTo(S, n) ==
  IF n = 0 THEN { << >> }
  ELSE LET shorter == SeqsUpTo(S, n - 1) IN
       shorter \cup { Append(x, e) : x \in { y \in shorter : Len(y) = n - 1 }, e \in S }

\* Lines of token.txt: blank, tokens, a token with an inner space, a token
\* with spaces around it.
TokenLines ==
  { << >>, << " " >>, << "a" >>, << "b" >>, << "a", "b" >>, << "a", " ", "b" >>,
    << " ", "a", " " >> }

\* Lines of credentials.txt: blank, pairs, two pairs of one user, a line
\* without a colon, a pair with spaces around it, a password with a colon.
PairLines ==
  { << >>, << "a", ":", "b" >>, << "a", ":", "c" >>, << "b", ":", "b" >>, << "a" >>,
    << " ", "a", ":", "b", " " >>, << "a", ":", "b", ":", "c" >>, << ":" >> }

AuthTokenFiles == { Missing } \cup { File(ls) : ls \in SeqsUpTo(TokenLines, MaxLines) }
AuthCredFiles == { Missing } \cup { File(ls) : ls \in SeqsUpTo(PairLines, MaxLines) }

\* Headers that are not of a scheme.
OtherHeaders ==
  { NoHeader, Header(<< >>), Header(<< "B", "e", "a", "r", "e", "r" >>),
    Header(<< "b", "e", "a", "r", "e", "r", " ", "a" >>),
    Header(<< "B", "a", "s", "i", "c" >>), Header(<< "T", "o", "k", "e", "n", " ", "a" >>) }

BearerHeaders ==
  { BearerHeader(t) : t \in SeqsUpTo({ "a", "b", " " }, MaxTokenLen) }

\* Basic headers: the encoding of a text, and remainders that are no
\* base64, no UTF-8, hold no colon, or hold a character that is not of the
\* base64 alphabet.
BasicHeaders ==
  { BasicHeader(t) :
      t \in SeqsUpTo({ "a", "b", "c", ":" }, MaxPairLen) \cup { Strip(l) : l \in PairLines } }
  \cup { Header(BasicPrefix \o x) :
           x \in { << "Y", "T", "p" >>, << "!", "!" >>, << "/", "w", "=", "=" >>,
                   << "Y", "W", "I", "=" >>, << "Y", "T", "p", "i", " ", "x" >>,
                   << "Y", "T", "p", "i", "!" >> } }

\* The outcome of a call as the caller sees it.
Outcome(out) ==
  IF out.ok THEN (IF out.val THEN "accepted" ELSE "rejected") ELSE out.val

InitAuth ==
  /\ \/ /\ tokenFile \in AuthTokenFiles
        /\ credFile \in { Missing, File(<< << "a", ":", "b" >> >>) }
        /\ auth \in [hdr : BearerHeaders \cup OtherHeaders, out : { "pending" }]
     \/ /\ tokenFile \in { Missing, File(<< << "a" >> >>) }
        /\ credFile \in AuthCredFiles
        /\ auth \in [hdr : BasicHeaders \cup OtherHeaders, out : { "pending" }]
  /\ db = << >>
  /\ now = 0
  /\ server = "serving"
  /\ req = [r \in Reqs |-> Idle]
  /\ view = NoView

\* Line 152.
AuthCall ==
  /\ auth.out = "pending"
  /\ auth' = [auth EXCEPT !.out = Outcome(Authenticate(auth.hdr, tokenFile, credFile))]
  /\ UNCHANGED << tokenFile, credFile, db, now, server, req, view >>

NextAuth == AuthCall

SpecAuth == InitAuth /\ [][NextAuth]_vars

(***************************************************************************)
(* Properties.                                                             *)
(***************************************************************************)

\* The request r is authenticated in this step.
Authenticating(r) == req[r].pc = "auth" /\ req'[r].pc # "auth"

\* The tokens of a token source: its lines without the surrounding
\* whitespace, the blank ones left out.
TokenSet(file) == { Strip(file.lines[i]) : i \in 1..Len(file.lines) } \ { << >> }

\* The text of s before its first space (all of s when it holds none).
Candidate(s) == SplitFirst(s, " ")[1]

\* The text of a header after a prefix it starts with.
AfterPrefix(h, prefix) == SubSeq(h.val, Len(prefix) + 1, Len(h.val))

\* C1: a request the authenticator rejects is answered 401 with the body
\* {"error": "Unauthorized"}, its body is not read and the store is left as
\* it was; a missing header, a header of neither scheme and a Bearer token
\* that is not in the token source are rejected.
C1_RejectedIs401 ==
  [][\A r \in Reqs :
       Authenticating(r) =>
         LET h == req[r].hdr
             rejected == Authenticate(h, tokenFile, credFile) = Ok(FALSE)
         IN
         /\ ~h.present => rejected
         /\ (h.present /\ ~StartsWith(h.val, BearerPrefix)
               /\ ~StartsWith(h.val, BasicPrefix)) => rejected
         /\ (h.present /\ StartsWith(h.val, BearerPrefix) /\ tokenFile.exists
               /\ Candidate(AfterPrefix(h, BearerPrefix)) \notin TokenSet(tokenFile))
              => rejected
         /\ rejected =>
              /\ req'[r].pc = "done"
              /\ req'[r].resp = JsonError(401, "Unauthorized")
              /\ req'[r].body = << >> /\ req'[r].data = JNull /\ req'[r].rowid = 0
              /\ db' = db
    ]_vars

\* C1's witness: a request without a header and a request with a Bearer
\* token that is not in token.txt, both answered 401.
C1_Witness ==
  \E r1, r2 \in Reqs :
    /\ req[r1].pc = "done" /\ req[r1].hdr = NoHeader /\ req[r1].resp.status = 401
    /\ req[r2].pc = "done" /\ req[r2].hdr = BearerHeader(TokA) /\ req[r2].resp.status = 401

\* The header is a Bearer header and the call has ended with a token source
\* that is in place.
BearerDecided ==
  /\ auth.out \notin { "none", "pending" }
  /\ auth.hdr.present /\ StartsWith(auth.hdr.val, BearerPrefix)
  /\ tokenFile.exists

\* C2 as stated: "Bearer s" is accepted if s is a token of the token source
\* and rejected if it is not.
C2_BearerIffListed ==
  BearerDecided =>
    LET s == AfterPrefix(auth.hdr, BearerPrefix) IN
    IF s \in TokenSet(tokenFile) THEN auth.out = "accepted" ELSE auth.out = "rejected"

\* C2, amended: "Bearer s" is accepted if the text of s before its first
\* space is a token of the token source and rejected if it is not; so a
\* token without a space is accepted, a token with a space is accepted only
\* if its first word is a token too, and a string without a space that is no
\* token is rejected.
C2_BearerIffCandidateListed ==
  BearerDecided =>
    LET s == AfterPrefix(auth.hdr, BearerPrefix) IN
    IF Candidate(s) \in TokenSet(tokenFile)
      THEN auth.out = "accepted" ELSE auth.out = "rejected"

\* C2's witness: "a b" is a token of the source, "a" is not, and
\* "Bearer a b" is rejected.
C2_Witness ==
  /\ tokenFile = File(<< << "a", " ", "b" >> >>)
  /\ auth.hdr = BearerHeader(<< "a", " ", "b" >>)
  /\ auth.out = "rejected"

\* The lines of a credential source that are not blank, stripped.
PairsOf(file) == SelectSeq([i \in 1..Len(file.lines) |-> Strip(file.lines[i])],
                           LAMBDA l : l # << >>)

\* The text before the first colon of a pair, and the text after it.
UserOf(pair) == SplitFirst(pair, ":")[1]
PasswordOf(pair) == SplitFirst(pair, ":")[2]

HasColon(text) == \E i \in 1..Len(text) : text[i] = ":"

\* Every line of the credential source that is not blank is a pair.
AllPairs(file) == \A i \in 1..Len(PairsOf(file)) : HasColon(PairsOf(file)[i])

\* t differs from s in exactly one character of the username or of the
\* password (the colon that separates them stays).
OneCharChanged(s, t) ==
  /\ Len(s) = Len(t)
  /\ HasColon(s) /\ HasColon(t) /\ Len(UserOf(s)) = Len(UserOf(t))
  /\ Cardinality({ i \in 1..Len(s) : s[i] # t[i] }) = 1

\* The texts a Basic header of the model may carry.
PairTexts ==
  { t \in SeqsUpTo({ "a", "b", "c", ":" }, MaxPairLen) \cup { Strip(l) : l \in PairLines } :
      HasColon(t) }

\* The Basic header that carries the encoding of each of these texts.
BasicHeaderOf == [t \in PairTexts |-> BasicHeader(t)]

\* The text each of these headers carries (base64 is one to one).
CarriedText ==
  [h \in { BasicHeaderOf[t] : t \in PairTexts } |->
     CHOOSE t \in PairTexts : BasicHeaderOf[t] = h]

\* The call has ended, for a Basic header that carries the encoding of t.
BasicDecided(t) ==
  /\ auth.out \notin { "none", "pending" }
  /\ auth.hdr = BasicHeaderOf[t]

\* C3 as stated: when every line of the credential source is a pair, the
\* header of each line's pair is accepted and the header of a pair that
\* differs from it in one character is rejected.
C3_EveryLineAccepted ==
  (credFile.exists /\ AllPairs(credFile)) =>
    \A i \in 1..Len(PairsOf(credFile)) :
      LET pair == PairsOf(credFile)[i] IN
      /\ BasicDecided(pair) => auth.out = "accepted"
      /\ \A t \in PairTexts :
           (OneCharChanged(pair, t) /\ BasicDecided(t)) => auth.out = "rejected"

\* The pair user:password is the last pair of its username in the source.
LastPairOf(file, user, password) ==
  \E i \in 1..Len(PairsOf(file)) :
    /\ UserOf(PairsOf(file)[i]) = user
    /\ PasswordOf(PairsOf(file)[i]) = password
    /\ \A j \in (i + 1)..Len(PairsOf(file)) : UserOf(PairsOf(file)[j]) # user

\* C3, amended: a Basic header carrying base64(username:password) is accepted
\* if and only if the credential source is in place, every line of it that is
\* not blank holds a colon, and the last of its lines with that username
\* (split on the first colon) has that password.  So the pair of a line is
\* accepted unless a later line has its username, and a pair changed in one
\* character is rejected unless the changed pair is itself the last pair of
\* its username.
C3_AcceptedIffLastPair ==
  (auth.out \notin { "none", "pending" } /\ auth.hdr \in DOMAIN CarriedText) =>
    LET t == CarriedText[auth.hdr] IN
    auth.out = "accepted" <=>
      /\ credFile.exists
      /\ AllPairs(credFile)
      /\ LastPairOf(credFile, UserOf(t), PasswordOf(t))

\* C3's witness: the source holds a:b and then a:c, and the header of a:b is
\* rejected.
C3_Witness ==
  /\ credFile = File(<< << "a", ":", "b" >>, << "a", ":", "c" >> >>)
  /\ auth.hdr = BasicHeader(<< "a", ":", "b" >>)
  /\ auth.out = "rejected"

\* The request r was answered by the step that read its body, which came
\* with Content-Type: application/json.
AnsweredOnBody(r) == req[r].pc = "done" /\ req[r].isJson

\* C4 as stated: an authenticated request whose body is JSON for a value
\* other than null goes on to Persist (and so is answered 200, its payload
\* stored); it is not answered when its body has been read.
C4_NonNullIsStored ==
  \A r \in Reqs :
    AnsweredOnBody(r) =>
      ~(JsonLoads(req[r].body).ok /\ JsonLoads(req[r].body).val.t # "null")

\* C5 as stated: an authenticated request whose body is no JSON, or is JSON
\* for null, is answered 400 with the body {"error": "Invalid JSON payload"}.
C5_BadBodyIs400 ==
  \A r \in Reqs :
    (AnsweredOnBody(r)
       /\ (~JsonLoads(req[r].body).ok \/ JsonLoads(req[r].body).val.t = "null"))
      => req[r].resp = JsonError(400, "Invalid JSON payload")

\* The requests that have committed a row, and the rows no request of this
\* run has committed.
Committed == { r \in Reqs : req[r].rowid # 0 }
RowsBefore == SelectSeq(db, LAMBDA row : \A r \in Committed : req[r].rowid # row.id)

\* C6: under any interleaving the ids of the rows increase strictly in
\* insertion order, the requests that committed have distinct ids and each
\* has its row in the store, the rows of before are as they were, and the
\* store holds one row more for each request that committed: exactly N more
\* when the requests that committed are the N answered 200.
C6_DistinctIncreasingIds ==
  /\ \A i, j \in 1..Len(db) : i < j => db[i].id < db[j].id
  /\ \A r1, r2 \in Committed : r1 # r2 => req[r1].rowid # req[r2].rowid
  /\ \A r \in Committed : \E i \in 1..Len(db) : db[i].id = req[r].rowid
  /\ \A r \in Reqs : req[r].resp = Success => r \in Committed
  /\ RowsBefore \in init_db
  /\ Len(db) = Len(RowsBefore) + Cardinality(Committed)
  /\ (\A r \in Committed : req[r].resp = Success) =>
       Len(db) = Len(RowsBefore) + Cardinality({ r \in Reqs : req[r].resp = Success })

\* C6's witness: two requests answered 200 whose ingestions interleaved: the
\* row committed last carries the earlier timestamp.
C6_Witness ==
  /\ \A r \in Reqs : req[r].resp = Success
  /\ Len(db) >= 2
  /\ db[Len(db)].timestamp < db[Len(db) - 1].timestamp
  /\ \E r \in Reqs : req[r].rowid = db[Len(db)].id

\* A GET /messages has answered in this step.
GetAnswers == view' # view

\* What GET /messages shows of a row.
Shown(row) == [timestamp |-> row.timestamp, data |-> row.data]

\* The position in rows of the row with this id.
RowIndex(rows, id) == CHOOSE i \in 1..Len(rows) : rows[i].id = id

\* C7: a GET /messages without search that answers after a request was
\* answered 200 returns that request's message as its last element when no
\* row was appended after it (which is the most recent one message), and at
\* its place from the end when fewer than LIMIT rows were appended after it;
\* and the row of a request that has committed holds the payload it sent.
C7_ReadYourOwnWrite ==
  /\ [][(GetAnswers /\ view'.search = << >>) =>
          \A r \in Reqs :
            req[r].resp = Success =>
              LET later == Len(db) - RowIndex(db, req[r].rowid)
                  got == view'.messages
              IN later < LIMIT =>
                   /\ Len(got) > later
                   /\ got[Len(got) - later] = Shown(db[RowIndex(db, req[r].rowid)])
      ]_vars
  /\ [](\A r \in Reqs :
          req[r].pc = "log" =>
            db[RowIndex(db, req[r].rowid)].data = JsonDumps(req[r].data))

\* C7's witness: a GET without search has returned, as its last element, the
\* message of a request answered 200, and, before it, the message of the
\* other request answered 200.
C7_Witness ==
  /\ Len(db) >= 2
  /\ view.search = << >> /\ Len(view.messages) >= 2
  /\ \E r1, r2 \in Reqs :
       /\ req[r1].resp = Success /\ req[r2].resp = Success
       /\ req[r1].rowid = db[Len(db)].id /\ req[r2].rowid = db[Len(db) - 1].id
       /\ view.messages[Len(view.messages)] = Shown(db[Len(db)])
       /\ view.messages[Len(view.messages) - 1] = Shown(db[Len(db) - 1])
       /\ Shown(db[Len(db)]) # Shown(db[Len(db) - 1])

\* C8: a GET /messages without search returns exactly the min(n, LIMIT) rows
\* of largest id of the n rows stored, in ascending id.
C8_RecentOldestFirst ==
  [][(GetAnswers /\ view'.search = << >>) =>
       LET n == Len(db)
           k == IF n < LIMIT THEN n ELSE LIMIT
       IN /\ view'.status = 200
          /\ view'.messages = [i \in 1..k |-> Shown(db[n - k + i])]
  ]_vars

\* C8's witness: more than LIMIT rows are stored and a GET without search
\* has returned the LIMIT last of them, the first row left out.
C8_Witness ==
  /\ Len(db) = LIMIT + 1
  /\ view.status = 200 /\ view.search = << >>
  /\ Len(view.messages) = LIMIT
  /\ view.messages[1] = Shown(db[2])
  /\ view.messages[LIMIT] = Shown(db[LIMIT + 1])
  /\ Shown(db[1]) # Shown(db[2])

\* Two characters that are the same up to the case of an ASCII letter.
SameLetter(a, b) ==
  \/ a = b
  \/ /\ Ord(a) >= 65 /\ Ord(a) <= 90 /\ Ord(b) = Ord(a) + 32
  \/ /\ Ord(b) >= 65 /\ Ord(b) <= 90 /\ Ord(a) = Ord(b) + 32

\* The text holds s as a substring, case ignored.
Matches(text, s) ==
  \E o \in 0..(Len(text) - Len(s)) : \A j \in 1..Len(s) : SameLetter(text[o + j], s[j])

\* C9: a GET /messages with a search string s that is not empty returns
\* exactly the rows, among the LIMIT rows of largest id, whose data holds s
\* case ignored, in ascending id: no row older than these LIMIT is returned.
C9_FilterAfterCap ==
  [][(GetAnswers /\ view'.search # << >>) =>
       LET n == Len(db)
           k == IF n < LIMIT THEN n ELSE LIMIT
           window == [i \in 1..k |-> Shown(db[n - k + i])]
       IN /\ view'.status = 200
          /\ view'.messages =
               SelectSeq(window, LAMBDA msg : Matches(msg.data, view'.search))
  ]_vars

\* C9's witness: of LIMIT + 1 rows the first and the third match the search
\* string and a GET has returned the third alone, fewer than LIMIT entries.
C9_Witness ==
  /\ Len(db) = LIMIT + 1
  /\ view.status = 200 /\ view.search # << >>
  /\ Matches(db[1].data, view.search) /\ Matches(db[3].data, view.search)
  /\ view.messages = << Shown(db[3]) >>

\* C10: a storage failure during Persist is answered 500 with a JSON body
\* {"error": <message>}, adds no row, leaves the rows as they were and the
\* server serving; and while the server serves after it, a request can be
\* received when one is still to come and a request that is ready to persist
\* can commit its row.
C10_StorageFailureIs500 ==
  /\ [][\A r \in Reqs :
          (req[r].pc = "insert" /\ req'[r].pc = "done") =>
            /\ req'[r].resp.status = 500 /\ req'[r].resp.kind = "json"
            /\ req'[r].resp.error # ""
            /\ req'[r].rowid = 0
            /\ db' = db
            /\ server' = server
      ]_vars
  /\ []((server = "serving" /\ \E r \in Reqs : req[r].resp = JsonError(500, "OperationalError"))
          => /\ (\E r \in Reqs : req[r].pc = "idle") => ENABLED (\E r \in Reqs : Receive(r))
             /\ \A r \in Reqs : req[r].pc = "insert" => ENABLED Persist(r))

\* C10's witness: a request was answered 500 for a storage failure and the
\* other one, which was ready to persist when the first had failed, has
\* committed and was answered 200.
C10_Witness ==
  \E r1, r2 \in Reqs :
    /\ req[r1].resp = JsonError(500, "OperationalError") /\ req[r1].rowid = 0
    /\ req[r2].resp = Success /\ req[r2].rowid = db[Len(db)].id
    /\ db[Len(db)].timestamp = MaxClock

\* C11 as stated: every request ends with one response of status 200, 400,
\* 401 or 500, every response that is not 200 has a JSON body with an
\* "error" field, and no request ends the process.
C11_OneJsonResponse ==
  /\ server # "exited"
  /\ \A r \in Reqs :
       /\ req[r].pc # "dropped"
       /\ req[r].pc = "done" =>
            /\ req[r].resp.status \in { 200, 400, 401, 500 }
            /\ req[r].resp.status # 200 =>
                 (req[r].resp.kind = "json" /\ req[r].resp.error # "")

\* C12 as stated: with token.txt or credentials.txt missing at startup the
\* process does not come to serve.
C12_NoServingUnreadable ==
  [][(server = "starting" /\ (~tokenFile.exists \/ ~credFile.exists))
       => server' # "serving"]_vars

\* The call has ended, for a header that begins with "Basic ".
BasicCallDecided ==
  /\ auth.out \notin { "none", "pending" }
  /\ auth.hdr.present /\ StartsWith(auth.hdr.val, BasicPrefix)

\* x is base64 as RFC 4648 writes it: characters of the alphabet in groups
\* of four, the last group padded with at most two "=".
StrictBase64(x) ==
  /\ Len(x) % 4 = 0
  /\ \A i \in 1..Len(x) :
       \/ IsB64Char(x[i]) /\ x[i] # "="
       \/ x[i] = "=" /\ i >= Len(x) - 1 /\ \A j \in i..Len(x) : x[j] = "="

\* The text does not decode to "username:password": the decoding fails, the
\* bytes are no UTF-8, or the text holds no colon.
NoPairIn(x) ==
  LET bytes == B64Decode(x) IN
  \/ ~bytes.ok
  \/ ~Utf8Decode(bytes.val).ok
  \/ ~HasColon(Utf8Decode(bytes.val).val)

\* C13 as stated: a Basic header whose remainder is not valid base64, is not
\* UTF-8 once decoded, or decodes to a text without a colon is rejected.
C13_MalformedRejected ==
  BasicCallDecided =>
    LET x == AfterPrefix(auth.hdr, BasicPrefix) IN
    (~StrictBase64(x) \/ NoPairIn(x)) => auth.out = "rejected"

\* C13, the part that holds: a Basic header is rejected, with no exception
\* and whatever the credential source is (missing, or with a line without a
\* colon), when
\* b64decode refuses the text of the remainder before its first space, when
\* the decoded bytes are no UTF-8 and when the decoded text holds no colon.
\* b64decode drops the characters that are not of the alphabet: "YTpi!" is
\* decided as "YTpi".
C13_UndecodableRejected ==
  BasicCallDecided =>
    LET x == AfterPrefix(auth.hdr, BasicPrefix) IN
    /\ NoPairIn(Candidate(x)) => auth.out = "rejected"
    /\ (x = << "Y", "T", "p", "i", "!" >> /\ credFile.exists /\ AllPairs(credFile)) =>
         (auth.out = "accepted" <=> LastPairOf(credFile, << "a" >>, << "b" >>))

\* C13's witness: the remainder decodes to the byte 0xFF, no UTF-8; the
\* credential source is missing and the header is rejected.
C13_Witness ==
  /\ auth.hdr = Header(BasicPrefix \o << "/", "w", "=", "=" >>)
  /\ credFile = Missing
  /\ auth.out = "rejected"

\* C14: with the token source in place, whatever its lines (blank ones and
\* lines of whitespace among them), a Bearer header with an empty candidate
\* token ("Bearer " alone, or "Bearer " followed by a space) is rejected.
C14_EmptyTokenRejected ==
  (BearerDecided /\ Candidate(AfterPrefix(auth.hdr, BearerPrefix)) = << >>) =>
    auth.out = "rejected"

\* C14's witness: the source holds a blank line and a line of whitespace,
\* and the header "Bearer " is rejected.
C14_Witness ==
  /\ tokenFile = File(<< << >>, << " " >> >>)
  /\ auth.hdr = Header(BearerPrefix)
  /\ auth.out = "rejected"

\* The request r comes to the stage pc in this step.
Enters(r, pc) == req[r].pc # pc /\ req'[r].pc = pc

\* C15: every step, of a POST /webhook or of a GET /messages, leaves the rows
\* of the store in place with their id, timestamp and data; a step that
\* changes the store appends one row, of larger id, for a request that is
\* ready to persist, with its timestamp and the text of its payload; a
\* request is ready to persist only after its body was read as JSON for the
\* value it holds, and its body is read only after the authenticator has
\* accepted its header.
C15_AppendOnly ==
  [][/\ Len(db') >= Len(db)
     /\ SubSeq(db', 1, Len(db)) = db
     /\ db' # db =>
          /\ Len(db') = Len(db) + 1
          /\ \A i \in 1..Len(db) : db[i].id < db'[Len(db')].id
          /\ \E r \in Reqs :
               /\ req[r].pc = "insert"
               /\ db'[Len(db')].timestamp = req[r].timestamp
               /\ db'[Len(db')].data = JsonDumps(req[r].data)
     /\ \A r \in Reqs :
          /\ Enters(r, "insert") =>
               /\ req[r].pc = "parse"
               /\ \E p \in Payloads :
                    /\ p[2] /\ JsonLoads(p[1]).ok
                    /\ JsonLoads(p[1]).val.t = req'[r].data.t
                    /\ JsonLoads(p[1]).val = req'[r].data
          /\ Enters(r, "parse") =>
               /\ req[r].pc = "auth"
               /\ Authenticate(req[r].hdr, tokenFile, credFile) = Ok(TRUE)
    ]_vars

\* C15's witness: the rows of an earlier run are all in place, a request has
\* appended one row after them and was answered 200, and a GET /messages has
\* answered.
C15_Witness ==
  /\ Len(db) = LIMIT
  /\ SubSeq(db, 1, LIMIT - 1) = PastRows(LIMIT - 1)
  /\ \E r \in Reqs : req[r].resp = Success /\ req[r].rowid = db[LIMIT].id
  /\ view.status = 200 /\ Len(view.messages) = LIMIT

\* The tokens of a token source that hold no space.
SpacelessTokens(file) == { t \in TokenSet(file) : \A i \in 1..Len(t) : t[i] # " " }

\* C16: a Bearer header is accepted only for a candidate (the text between
\* "Bearer " and the first space after it) that is a token without a space;
\* when every token of the source holds a space every Bearer header is
\* rejected; and "Bearer a b" is decided as "Bearer a" is.
C16_SpacedTokenNeverMatched ==
  BearerDecided =>
    LET c == Candidate(AfterPrefix(auth.hdr, BearerPrefix)) IN
    /\ auth.out = "accepted" => c \in SpacelessTokens(tokenFile)
    /\ SpacelessTokens(tokenFile) = {} => auth.out = "rejected"
    /\ auth.out = Outcome(Authenticate(BearerHeader(c), tokenFile, credFile))

\* C16's witness: the source holds "a" and "a b", and "Bearer a b" is
\* accepted, for its candidate "a".
C16_Witness ==
  /\ tokenFile = File(<< << "a" >>, << "a", " ", "b" >> >>)
  /\ auth.hdr = BearerHeader(<< "a", " ", "b" >>)
  /\ auth.out = "accepted"

\* The Basic header of the pair u:p.
HeaderUP == BasicHeader(PairUP)

\* C17: the authenticator decides on the sources as they are when the
\* request is authenticated: a Bearer header goes on to the body exactly
\* when its candidate is a token of token.txt at that time, and the Basic
\* header of u:p exactly when u:p is the last pair of u in credentials.txt at
\* that time, whatever the sources were before.
C17_FreshCredentials ==
  [][\A r \in Reqs :
       Authenticating(r) =>
         LET h == req[r].hdr IN
         /\ (h.present /\ StartsWith(h.val, BearerPrefix) /\ tokenFile.exists) =>
              (req'[r].pc = "parse"
                 <=> Candidate(AfterPrefix(h, BearerPrefix)) \in TokenSet(tokenFile))
         /\ (h = HeaderUP /\ credFile.exists /\ AllPairs(credFile)) =>
              (req'[r].pc = "parse" <=> LastPairOf(credFile, << "u" >>, << "p" >>))
    ]_vars

\* C17's witness: of two requests with the header "Bearer a" one was
\* rejected and one accepted: token.txt was edited between the two
\* authentications.
C17_Witness ==
  \E r1, r2 \in Reqs :
    /\ req[r1].pc = "done" /\ req[r1].resp = JsonError(401, "Unauthorized")
    /\ req[r1].hdr = BearerHeader(TokA)
    /\ req[r2].pc = "parse" /\ req[r2].hdr = BearerHeader(TokA)

\* C18 as stated: a request that was answered has appended a row if and only
\* if it was answered 200.
C18_RowIffSuccess ==
  \A r \in Reqs :
    req[r].pc = "done" => (req[r].rowid # 0 <=> req[r].resp = Success)

\* C19 as stated: of two rows, the one of smaller id has the timestamp that
\* is not later.
C19_TimestampsFollowIds ==
  \A i, j \in 1..Len(db) :
    db[i].id < db[j].id => db[i].timestamp <= db[j].timestamp

\* C20: the outcome of a call with a Bearer header is the outcome of
\* authenticate_bearer on the token source alone, whatever the credential
\* source is (missing included), and the outcome of a call with a Basic
\* header is the outcome of authenticate_basic on the credential source
\* alone, whatever the token source is: the source of the other scheme is
\* not read.
C20_SchemesIndependent ==
  /\ (auth.out \notin { "none", "pending" } /\ auth.hdr.present
        /\ StartsWith(auth.hdr.val, BearerPrefix)) =>
       auth.out = Outcome(authenticate_bearer(auth.hdr, tokenFile))
  /\ BasicCallDecided =>
       auth.out = Outcome(authenticate_basic(auth.hdr, credFile))

\* C20's witness: "Bearer b" is rejected for a token source that does not
\* list b, with credentials.txt missing: authenticate_basic was called and
\* read nothing.
C20_Witness ==
  /\ tokenFile = File(<< << "a" >> >>)
  /\ credFile = Missing
  /\ auth.hdr = BearerHeader(<< "b" >>)
  /\ auth.out = "rejected"

====
